---- MODULE Spec2Model ----
(***************************************************************************)
(* Model of the service registry of go-xml-rpc (src/map.go): the           *)
(* serviceMap with its mutex, services map and defaultService slot, and    *)
(* its two operations register (reflection-based method discovery,         *)
(* validation and insertion) and get (dotted-name lookup).                 *)
(*                                                                         *)
(* Strings are sequences of one-character strings, so that strings.Split   *)
(* and the first-rune test of isExported are computed, not assumed.        *)
(* A *service is an index into heap (0 is the nil pointer).                *)
(***************************************************************************)
EXTENDS Integers, Sequences, FiniteSets, TLC

\* ------------------------------------------------------------------ bounds
\* Total number of register/get calls started in one behaviour.
MaxCalls == 3

\* ----------------------------------------------------------------- strings
\* The upper-case letters of the alphabet the names below are written in.
Upper == {"A", "B", "C", "F", "I", "N", "O", "P", "R", "S", "T", "V"}

Dot == <<".">>

\* unicode.IsUpper(first rune); DecodeRuneInString("") yields RuneError,
\* which is not upper case.
isExported(name) == name # <<>> /\ name[1] \in Upper

\* Index of the first "." of s at or after position i, 0 if there is none.
RECURSIVE IndexDot(_, _)
IndexDot(s, i) ==
    IF i > Len(s) THEN 0
    ELSE IF s[i] = "." THEN i
    ELSE IndexDot(s, i + 1)

\* Mutant: strings.SplitN(s, ".", 2), which cuts at the first "." only.
SplitAtFirst(s) ==
    LET k == IndexDot(s, 1) IN
    IF k = 0 THEN <<s>>
    ELSE <<SubSeq(s, 1, k - 1), SubSeq(s, k + 1, Len(s))>>

\* strings.Split(s, "."): cut at every ".", n separators give n+1 parts,
\* the empty string gives one empty part.
RECURSIVE Split(_)
Split(s) ==
    LET k == IndexDot(s, 1) IN
    IF k = 0 THEN <<s>>
    ELSE <<SubSeq(s, 1, k - 1)>> \o Split(SubSeq(s, k + 1, Len(s)))

\* ------------------------------------------------------------ reflect.Type
\* Types are named by their Go spelling; Kind, Elem, Name and PkgPath give
\* what reflect reports for them.
typeOfError == "error"
typeOfRequest == "http.Request"

PtrTypes == {"*http.Request", "*Args", "*Reply", "*args", "*int", "**Args",
             "*struct{}", "*Calc", "*calc", "*Void"}

Types == PtrTypes \cup {"http.Request", "Args", "Reply", "args", "int",
                        "struct{}", "Calc", "calc", "Void", "error"}

Kind(t) == IF t \in PtrTypes THEN "Ptr"
           ELSE IF t = "int" THEN "Int"
           ELSE IF t = "error" THEN "Interface"
           ELSE "Struct"

Elem(t) == CASE t = "*http.Request" -> "http.Request"
             [] t = "*Args" -> "Args"
             [] t = "*Reply" -> "Reply"
             [] t = "*args" -> "args"
             [] t = "*int" -> "int"
             [] t = "**Args" -> "*Args"
             [] t = "*struct{}" -> "struct{}"
             [] t = "*Calc" -> "Calc"
             [] t = "*calc" -> "calc"
             [] t = "*Void" -> "Void"

\* Type.Name(): the name within its package, empty for unnamed types
\* (pointers, struct literals).
TypeName(t) == CASE t = "http.Request" -> <<"R", "e", "q", "u", "e", "s", "t">>
                 [] t = "Args" -> <<"A", "r", "g", "s">>
                 [] t = "Reply" -> <<"R", "e", "p", "l", "y">>
                 [] t = "args" -> <<"a", "r", "g", "s">>
                 [] t = "int" -> <<"i", "n", "t">>
                 [] t = "Calc" -> <<"C", "a", "l", "c">>
                 [] t = "calc" -> <<"c", "a", "l", "c">>
                 [] t = "Void" -> <<"V", "o", "i", "d">>
                 [] t = "error" -> <<"e", "r", "r", "o", "r">>
                 [] OTHER -> <<>>

\* Type.PkgPath(): empty for predeclared and unnamed types.
PkgPath(t) == CASE t = "http.Request" -> "net/http"
                [] t \in {"Args", "Reply", "args", "Calc", "calc", "Void"} -> "main"
                [] OTHER -> ""

\* isExportedOrBuiltin: strip every pointer level, then exported name or
\* empty package path.
RECURSIVE isExportedOrBuiltin(_)
isExportedOrBuiltin(t) ==
    IF Kind(t) = "Ptr" THEN isExportedOrBuiltin(Elem(t))
    ELSE isExported(TypeName(t)) \/ PkgPath(t) = ""

\* ---------------------------------------------------------- reflect.Method
\* In lists the parameter types with the receiver first, as Method.Type
\* does; PkgPath is empty for an exported method.
Method(name, pkg, in, out) == [Name |-> name, PkgPath |-> pkg, In |-> in, Out |-> out]

Add == <<"A", "d", "d">>
Say == <<"S", "a", "y">>
Inc == <<"I", "n", "c">>
Calc == <<"C", "a", "l", "c">>

\* type Calc: one method of the shape wanted without the request, one of
\* the shape wanted with it, one with a wrong first parameter, one
\* unexported.
CalcMethods == <<
    Method(Add, "", <<"*Calc", "*Args", "*Reply">>, <<"error">>),
    Method(<<"F", "w", "d">>, "", <<"*Calc", "*Args", "*Args", "*Reply">>, <<"error">>),
    Method(Say, "", <<"*Calc", "*http.Request", "*struct{}", "*Reply">>, <<"error">>),
    Method(<<"h", "e", "l", "p">>, "main", <<"*Calc", "*Args", "*Reply">>, <<"error">> )>>

\* type calc (unexported): builtin and doubly indirect arguments.
LowerMethods == <<
    Method(Inc, "", <<"*calc", "*int", "*int">>, <<"error">>),
    Method(Say, "", <<"*calc", "*http.Request", "**Args", "*Reply">>, <<"error">>),
    Method(<<"T", "o", "p">>, "", <<"*calc", "*http.Request", "*Args", "*Reply">>, <<"error">>)>>

\* type Void: every method breaks one rule, with and without the request.
VoidMethods == <<
    Method(<<"V", "a", "l">>, "", <<"*Void", "Args", "*Reply">>, <<"error">>),
    Method(<<"P", "r", "i">>, "", <<"*Void", "*args", "*Reply">>, <<"error">>),
    Method(<<"O", "u", "t">>, "", <<"*Void", "*Args", "Reply">>, <<"error">>),
    Method(<<"N", "i", "l">>, "", <<"*Void", "*Args", "*Reply">>, <<>>),
    Method(<<"I", "n", "t">>, "", <<"*Void", "*Args", "*Reply">>, <<"int">>),
    Method(<<"T", "w", "o">>, "", <<"*Void", "*Args", "*Reply">>, <<"error", "error">>),
    Method(<<"R", "e", "q">>, "", <<"*Void", "http.Request", "*Args", "*Reply">>, <<"error">>),
    Method(<<"B", "a", "d">>, "", <<"*Void", "*http.Request", "*Args", "*args">>, <<"error">>),
    Method(<<"R", "a", "w">>, "", <<"*Void", "*http.Request", "Args", "*Reply">>, <<"error">>),
    Method(<<"N", "u", "m">>, "", <<"*Void", "*http.Request", "*Args", "*Reply">>, <<"int">>),
    Method(<<"S", "h", "o", "r", "t">>, "", <<"*Void", "*Args">>, <<"error">>)>>

\* A receiver: its dynamic type and the methods reflection lists for it.
Receiver(type, methods) == [type |-> type, methods |-> methods]

NumMethod(rcvr) == Len(rcvr.methods)

\* reflect.Indirect(rcvr).Type(): one pointer level removed, if any.
IndirectType(t) == IF Kind(t) = "Ptr" THEN Elem(t) ELSE t

\* ------------------------------------------------------------------ errors
NoError == "nil"
ErrNotExported == "rpc: type is not exported"
ErrNoServiceName == "rpc: no service name for type"
ErrNoMethods == "rpc: has no exported methods of suitable type"
ErrAlreadyDefined == "rpc: service already defined"
ErrIllFormed == "rpc: service/method request ill-formed"
ErrNoService == "rpc: can't find service"
ErrNoMethod == "rpc: can't find method"
\* Outcome of a call that ended in a run-time panic instead of returning.
Panicked == "panic: nil pointer dereference"

\* ------------------------------------------------------------------- state
\* Goroutines calling into the registry.
Threads == {"t1", "t2"}
NoThread == "none"

\* Names passed to register ("" asks for the receiver's type name).
\* An explicit name that is not exported: the name of the type calc.
LowerCalc == <<"c", "a", "l", "c">>
Nested == <<"C", ".", "A">>

\* The arguments of one register call.
RegArgs(rcvr, name, passReq, isDefault) ==
    [rcvr |-> rcvr, name |-> name, passReq |-> passReq, isDefault |-> isDefault]

RcvrCalc == Receiver("*Calc", CalcMethods)
RcvrLower == Receiver("*calc", LowerMethods)
RcvrVoid == Receiver("*Void", VoidMethods)
RcvrAnon == Receiver("*struct{}", <<>>)

\* The register calls and get strings a single caller chooses from ...
SeqRegisterCalls == {
    RegArgs(RcvrCalc, <<>>, FALSE, FALSE),
    RegArgs(RcvrCalc, Calc, TRUE, FALSE),
    RegArgs(RcvrCalc, <<>>, FALSE, TRUE),
    RegArgs(RcvrCalc, LowerCalc, TRUE, TRUE),
    RegArgs(RcvrCalc, Nested, FALSE, FALSE),
    RegArgs(RcvrCalc, Nested, FALSE, TRUE),
    RegArgs(RcvrLower, Calc, FALSE, FALSE),
    RegArgs(RcvrLower, <<>>, FALSE, FALSE),
    RegArgs(RcvrLower, <<>>, TRUE, TRUE),
    RegArgs(RcvrLower, LowerCalc, TRUE, TRUE),
    RegArgs(RcvrLower, LowerCalc, FALSE, FALSE),
    RegArgs(RcvrVoid, Calc, FALSE, FALSE),
    RegArgs(RcvrVoid, Calc, TRUE, TRUE),
    RegArgs(RcvrVoid, <<>>, TRUE, FALSE),
    RegArgs(RcvrAnon, <<>>, FALSE, FALSE),
    RegArgs(RcvrAnon, Calc, FALSE, TRUE)}

SeqGetNames == {Add, Say, Inc,
                Calc \o Dot \o Add, Calc \o Dot \o Say,
                Calc \o Dot \o Add \o Dot \o Add,
                Nested \o Dot \o Add,
                LowerCalc \o Dot \o Inc}

\* ... and those concurrent callers choose from.
ConcRegisterCalls == {
    RegArgs(RcvrCalc, <<>>, FALSE, FALSE),
    RegArgs(RcvrLower, Calc, FALSE, FALSE),
    RegArgs(RcvrCalc, <<>>, FALSE, TRUE),
    RegArgs(RcvrLower, LowerCalc, TRUE, TRUE)}

ConcGetNames == {Add, Calc \o Dot \o Add, Calc \o Dot \o Say,
                 Calc \o Dot \o Add \o Dot \o Add}

VARIABLES
    services,        \* m.services: [nil, m], m maps a name to a *service
    defaultService,  \* m.defaultService: a *service, 0 is nil
    mutex,           \* m.mutex: the thread that locked it, or NoThread
    heap,            \* the service structs allocated so far; a *service is an index
    pc,              \* per thread: where it is in register or get
    frame,           \* per thread: arguments and locals of its call
    hist,            \* the calls that ended, in the order they ended
    crashed          \* the process ended on an unrecovered panic

vars == <<services, defaultService, mutex, heap, pc, frame, hist, crashed>>

NilService == 0

\* The nil *serviceMethod.
NilMethod == [method |-> Method(<<>>, "", <<>>, <<>>), argsType |-> "", replyType |-> ""]

NoReceiver == Receiver("", <<>>)

IdleFrame == [op |-> "none", rcvr |-> NoReceiver, name |-> <<>>, passReq |-> FALSE,
              isDefault |-> FALSE, s |-> NilService, i |-> 0, method |-> <<>>,
              parts |-> <<>>, service |-> NilService, err |-> NoError]

\* The zero value of serviceMap: a nil map and no default service.
Init ==
    /\ services = [nil |-> TRUE, m |-> <<>>]
    /\ defaultService = NilService
    /\ mutex = NoThread
    /\ heap = <<>>
    /\ pc = [t \in Threads |-> "idle"]
    /\ frame = [t \in Threads |-> IdleFrame]
    /\ hist = <<>>
    /\ crashed = FALSE

\* m.services[k]: reading a nil map or a missing key yields nil.
MapGet(map, k) == IF k \in DOMAIN map.m THEN map.m[k] ELSE NilService

\* Mutant: the map is made anew for every entry.
MapPutAlone(map, k, v) == [nil |-> FALSE, m |-> [x \in {k} |-> v]]

\* m.services[k] = v
MapPut(map, k, v) ==
    [nil |-> FALSE,
     m |-> [x \in DOMAIN map.m \cup {k} |-> IF x = k THEN v ELSE map.m[x]]]

\* s.methods[k]
MethodGet(methods, k) == IF k \in DOMAIN methods THEN methods[k] ELSE NilMethod

Started == Len(hist) + Cardinality({t \in Threads : pc[t] # "idle"})

\* The record of a call that ended: its arguments and what the caller got.
Ended(t, err, service, serviceMethod) ==
    [t |-> t, op |-> frame[t].op, rcvr |-> frame[t].rcvr, name |-> frame[t].name,
     passReq |-> frame[t].passReq, isDefault |-> frame[t].isDefault,
     method |-> frame[t].method, err |-> err, service |-> service,
     serviceMethod |-> serviceMethod]

\* The call of thread t ends with this outcome.
Return(t, err, service, serviceMethod) ==
    /\ hist' = Append(hist, Ended(t, err, service, serviceMethod))
    /\ pc' = [pc EXCEPT ![t] = "idle"]
    /\ frame' = [frame EXCEPT ![t] = IdleFrame]

\* Mutant: Lock does not wait for the mutex to be free.
LockAtOnce(t) == mutex' = t

\* m.mutex.Lock(): blocks until the mutex is free.
Lock(t) == mutex = NoThread /\ mutex' = t

\* m.mutex.Unlock()
Unlock(t) == mutex' = NoThread

\* ---------------------------------------------------------------- register
\* A caller enters register(rcvr, name, passReq, isDefault).
CallRegister(t, calls) ==
    /\ ~crashed /\ pc[t] = "idle" /\ Started < MaxCalls
    /\ \E a \in calls :
          frame' = [frame EXCEPT ![t] = [IdleFrame EXCEPT !.op = "register", !.rcvr = a.rcvr,
                        !.name = a.name, !.passReq = a.passReq, !.isDefault = a.isDefault]]
    /\ pc' = [pc EXCEPT ![t] = "reg_setup"]
    /\ UNCHANGED <<services, defaultService, mutex, heap, hist, crashed>>

\* The name the new service gets: the given one, or the name of the
\* receiver's type with one pointer level removed.
ServiceName(rcvr, name) ==
    IF name = <<>> THEN TypeName(IndirectType(rcvr.type)) ELSE name

\* Mutant: the name of the receiver's type is taken without a check.
RegSetupAnyName(t) ==
    LET f == frame[t]
        s == Len(heap) + 1
        sname == ServiceName(f.rcvr, f.name)
        new == [name |-> sname, rcvr |-> f.rcvr, methods |-> <<>>, passReq |-> f.passReq]
    IN
    /\ ~crashed /\ pc[t] = "reg_setup"
    /\ heap' = Append(heap, new)
    /\ IF sname = <<>>
       THEN Return(t, ErrNoServiceName, s, NilMethod)
       ELSE /\ pc' = [pc EXCEPT ![t] = "reg_loop"]
            /\ frame' = [frame EXCEPT ![t].s = s, ![t].i = 1]
            /\ hist' = hist
    /\ UNCHANGED <<services, defaultService, mutex, crashed>>

\* Mutant: a name that is given has to be exported too.
RegSetupExportedOnly(t) ==
    LET f == frame[t]
        s == Len(heap) + 1
        sname == ServiceName(f.rcvr, f.name)
        new == [name |-> sname, rcvr |-> f.rcvr, methods |-> <<>>, passReq |-> f.passReq]
    IN
    /\ ~crashed /\ pc[t] = "reg_setup"
    /\ heap' = Append(heap, new)
    /\ IF ~isExported(sname)
       THEN Return(t, ErrNotExported, s, NilMethod)
       ELSE /\ pc' = [pc EXCEPT ![t] = "reg_loop"]
            /\ frame' = [frame EXCEPT ![t].s = s, ![t].i = 1]
            /\ hist' = hist
    /\ UNCHANGED <<services, defaultService, mutex, crashed>>

\* Setup service: allocate the service struct and settle its name.
RegSetup(t) ==
    LET f == frame[t]
        s == Len(heap) + 1
        sname == ServiceName(f.rcvr, f.name)
        new == [name |-> sname, rcvr |-> f.rcvr, methods |-> <<>>, passReq |-> f.passReq]
    IN
    /\ ~crashed /\ pc[t] = "reg_setup"
    /\ heap' = Append(heap, new)
    /\ IF f.name = <<>> /\ ~isExported(sname)
       THEN Return(t, ErrNotExported, s, NilMethod)
       ELSE IF sname = <<>>
       THEN Return(t, ErrNoServiceName, s, NilMethod)
       ELSE /\ pc' = [pc EXCEPT ![t] = "reg_loop"]
            /\ frame' = [frame EXCEPT ![t].s = s, ![t].i = 1]
            /\ hist' = hist
    /\ UNCHANGED <<services, defaultService, mutex, crashed>>

\* Mutant: the type of the return value is not checked.
SkipReasonAnyReturn(method, passReq) ==
    LET paramOffset == IF passReq THEN 1 ELSE 0 IN
    IF method.PkgPath # "" THEN "is not exported"
    ELSE IF Len(method.In) # 3 + paramOffset THEN "wrong number of ins"
    ELSE IF passReq /\ (Kind(method.In[2]) # "Ptr" \/ Elem(method.In[2]) # typeOfRequest)
         THEN "first argument is not *http.Request"
    ELSE IF \/ Kind(method.In[2 + paramOffset]) # "Ptr"
            \/ ~isExportedOrBuiltin(method.In[2 + paramOffset])
         THEN "args is not an exported pointer"
    ELSE IF \/ Kind(method.In[3 + paramOffset]) # "Ptr"
            \/ ~isExportedOrBuiltin(method.In[3 + paramOffset])
         THEN "reply is not an exported pointer"
    ELSE IF Len(method.Out) # 1 THEN "needs one out"
    ELSE ""

\* The body of the method loop up to the insertion: the reason the method
\* is skipped, "" when it is kept. In[1] is the receiver.
SkipReason(method, passReq) ==
    LET paramOffset == IF passReq THEN 1 ELSE 0 IN
    IF method.PkgPath # "" THEN "is not exported"
    ELSE IF Len(method.In) # 3 + paramOffset THEN "wrong number of ins"
    ELSE IF passReq /\ (Kind(method.In[2]) # "Ptr" \/ Elem(method.In[2]) # typeOfRequest)
         THEN "first argument is not *http.Request"
    ELSE IF \/ Kind(method.In[2 + paramOffset]) # "Ptr"
            \/ ~isExportedOrBuiltin(method.In[2 + paramOffset])
         THEN "args is not an exported pointer"
    ELSE IF \/ Kind(method.In[3 + paramOffset]) # "Ptr"
            \/ ~isExportedOrBuiltin(method.In[3 + paramOffset])
         THEN "reply is not an exported pointer"
    ELSE IF Len(method.Out) # 1 THEN "needs one out"
    ELSE IF method.Out[1] # typeOfError THEN "return type is not error"
    ELSE ""

\* &serviceMethod{method, args.Elem(), reply.Elem()}
NewServiceMethod(method, passReq) ==
    LET paramOffset == IF passReq THEN 1 ELSE 0 IN
    [method |-> method,
     argsType |-> Elem(method.In[2 + paramOffset]),
     replyType |-> Elem(method.In[3 + paramOffset])]

\* One iteration of the method loop: s.methods[method.Name] = ... unless skipped.
RegMethod(t) ==
    LET f == frame[t]
        method == f.rcvr.methods[f.i]
        old == heap[f.s].methods
    IN
    /\ ~crashed /\ pc[t] = "reg_loop" /\ f.i <= NumMethod(f.rcvr)
    /\ heap' = IF SkipReason(method, f.passReq) # "" THEN heap
               ELSE [heap EXCEPT ![f.s].methods =
                        [k \in DOMAIN old \cup {method.Name} |->
                            IF k = method.Name THEN NewServiceMethod(method, f.passReq)
                            ELSE old[k]]]
    /\ frame' = [frame EXCEPT ![t].i = f.i + 1]
    /\ UNCHANGED <<services, defaultService, mutex, pc, hist, crashed>>

\* Mutant: a service without methods is not refused.
RegCheckNever(t) ==
    /\ ~crashed /\ pc[t] = "reg_loop" /\ frame[t].i > NumMethod(frame[t].rcvr)
    /\ pc' = [pc EXCEPT ![t] = "reg_lock"]
    /\ UNCHANGED <<services, defaultService, mutex, heap, frame, hist, crashed>>

\* Mutant: the method loop may be left before every method is looked at.
RegCheckEarly(t) ==
    LET f == frame[t] IN
    /\ ~crashed /\ pc[t] = "reg_loop"
    /\ IF DOMAIN heap[f.s].methods = {} /\ f.i > NumMethod(f.rcvr)
       THEN Return(t, ErrNoMethods, f.s, NilMethod)
       ELSE /\ pc' = [pc EXCEPT ![t] = "reg_lock"]
            /\ UNCHANGED <<frame, hist>>
    /\ UNCHANGED <<services, defaultService, mutex, heap, crashed>>

\* After the loop: a service without methods is refused.
RegCheck(t) ==
    LET f == frame[t] IN
    /\ ~crashed /\ pc[t] = "reg_loop" /\ f.i > NumMethod(f.rcvr)
    /\ IF DOMAIN heap[f.s].methods = {}
       THEN Return(t, ErrNoMethods, f.s, NilMethod)
       ELSE /\ pc' = [pc EXCEPT ![t] = "reg_lock"]
            /\ UNCHANGED <<frame, hist>>
    /\ UNCHANGED <<services, defaultService, mutex, heap, crashed>>

RegLock(t) ==
    /\ ~crashed /\ pc[t] = "reg_lock"
    /\ Lock(t)
    /\ pc' = [pc EXCEPT ![t] = "reg_insert"]
    /\ UNCHANGED <<services, defaultService, heap, frame, hist, crashed>>

\* Mutant: a default service, once set, is not replaced.
RegInsertKeepDefault(t) ==
    LET f == frame[t]
        sname == heap[f.s].name
    IN
    /\ ~crashed /\ pc[t] = "reg_insert"
    /\ IF f.isDefault
       THEN /\ defaultService' = IF defaultService = NilService THEN f.s ELSE defaultService
            /\ UNCHANGED services
            /\ frame' = [frame EXCEPT ![t].err = NoError]
            /\ pc' = [pc EXCEPT ![t] = "reg_unlock"]
       ELSE IF services.nil
       THEN /\ services' = [nil |-> FALSE, m |-> <<>>]
            /\ UNCHANGED <<defaultService, frame>>
            /\ pc' = [pc EXCEPT ![t] = "reg_store"]
       ELSE IF sname \in DOMAIN services.m
       THEN /\ UNCHANGED <<services, defaultService>>
            /\ frame' = [frame EXCEPT ![t].err = ErrAlreadyDefined]
            /\ pc' = [pc EXCEPT ![t] = "reg_unlock"]
       ELSE /\ UNCHANGED <<services, defaultService, frame>>
            /\ pc' = [pc EXCEPT ![t] = "reg_store"]
    /\ UNCHANGED <<mutex, heap, hist, crashed>>

\* Mutant: a name already in the map is overwritten.
RegInsertOverwrite(t) ==
    LET f == frame[t]
        sname == heap[f.s].name
    IN
    /\ ~crashed /\ pc[t] = "reg_insert"
    /\ IF f.isDefault
       THEN /\ defaultService' = f.s
            /\ UNCHANGED services
            /\ frame' = [frame EXCEPT ![t].err = NoError]
            /\ pc' = [pc EXCEPT ![t] = "reg_unlock"]
       ELSE IF services.nil
       THEN /\ services' = [nil |-> FALSE, m |-> <<>>]
            /\ UNCHANGED <<defaultService, frame>>
            /\ pc' = [pc EXCEPT ![t] = "reg_store"]
       ELSE /\ UNCHANGED <<services, defaultService, frame>>
            /\ pc' = [pc EXCEPT ![t] = "reg_store"]
    /\ UNCHANGED <<mutex, heap, hist, crashed>>

\* Mutant: the default service that is replaced loses its methods.
RegInsertDetach(t) ==
    LET f == frame[t]
        sname == heap[f.s].name
    IN
    /\ ~crashed /\ pc[t] = "reg_insert"
    /\ IF f.isDefault
       THEN /\ defaultService' = f.s
            /\ heap' = IF defaultService = NilService THEN heap
                       ELSE [heap EXCEPT ![defaultService].methods = <<>>]
            /\ UNCHANGED services
            /\ frame' = [frame EXCEPT ![t].err = NoError]
            /\ pc' = [pc EXCEPT ![t] = "reg_unlock"]
       ELSE IF services.nil
       THEN /\ services' = [nil |-> FALSE, m |-> <<>>]
            /\ UNCHANGED <<defaultService, frame, heap>>
            /\ pc' = [pc EXCEPT ![t] = "reg_store"]
       ELSE IF sname \in DOMAIN services.m
       THEN /\ UNCHANGED <<services, defaultService, heap>>
            /\ frame' = [frame EXCEPT ![t].err = ErrAlreadyDefined]
            /\ pc' = [pc EXCEPT ![t] = "reg_unlock"]
       ELSE /\ UNCHANGED <<services, defaultService, frame, heap>>
            /\ pc' = [pc EXCEPT ![t] = "reg_store"]
    /\ UNCHANGED <<mutex, hist, crashed>>

\* Mutant: a default registration is refused when its name is in the map.
RegInsertDefaultChecked(t) ==
    LET f == frame[t]
        sname == heap[f.s].name
    IN
    /\ ~crashed /\ pc[t] = "reg_insert"
    /\ IF ~services.nil /\ sname \in DOMAIN services.m
       THEN /\ UNCHANGED <<services, defaultService>>
            /\ frame' = [frame EXCEPT ![t].err = ErrAlreadyDefined]
            /\ pc' = [pc EXCEPT ![t] = "reg_unlock"]
       ELSE IF f.isDefault
       THEN /\ defaultService' = f.s
            /\ UNCHANGED services
            /\ frame' = [frame EXCEPT ![t].err = NoError]
            /\ pc' = [pc EXCEPT ![t] = "reg_unlock"]
       ELSE IF services.nil
       THEN /\ services' = [nil |-> FALSE, m |-> <<>>]
            /\ UNCHANGED <<defaultService, frame>>
            /\ pc' = [pc EXCEPT ![t] = "reg_store"]
       ELSE /\ UNCHANGED <<services, defaultService, frame>>
            /\ pc' = [pc EXCEPT ![t] = "reg_store"]
    /\ UNCHANGED <<mutex, heap, hist, crashed>>

\* With the mutex locked: set the default service and be done, or make
\* the map if it is nil, or refuse a name the map holds; a named service
\* that is not refused is stored next.
RegInsert(t) ==
    LET f == frame[t]
        sname == heap[f.s].name
    IN
    /\ ~crashed /\ pc[t] = "reg_insert"
    /\ IF f.isDefault
       THEN /\ defaultService' = f.s
            /\ UNCHANGED services
            /\ frame' = [frame EXCEPT ![t].err = NoError]
            /\ pc' = [pc EXCEPT ![t] = "reg_unlock"]
       ELSE IF services.nil
       THEN /\ services' = [nil |-> FALSE, m |-> <<>>]
            /\ UNCHANGED <<defaultService, frame>>
            /\ pc' = [pc EXCEPT ![t] = "reg_store"]
       ELSE IF sname \in DOMAIN services.m
       THEN /\ UNCHANGED <<services, defaultService>>
            /\ frame' = [frame EXCEPT ![t].err = ErrAlreadyDefined]
            /\ pc' = [pc EXCEPT ![t] = "reg_unlock"]
       ELSE /\ UNCHANGED <<services, defaultService, frame>>
            /\ pc' = [pc EXCEPT ![t] = "reg_store"]
    /\ UNCHANGED <<mutex, heap, hist, crashed>>

\* m.services[s.name] = s
RegStore(t) ==
    LET f == frame[t] IN
    /\ ~crashed /\ pc[t] = "reg_store"
    /\ services' = MapPut(services, heap[f.s].name, f.s)
    /\ frame' = [frame EXCEPT ![t].err = NoError]
    /\ pc' = [pc EXCEPT ![t] = "reg_unlock"]
    /\ UNCHANGED <<defaultService, mutex, heap, hist, crashed>>

\* The deferred m.mutex.Unlock() runs, then register returns its result.
RegUnlock(t) ==
    /\ ~crashed /\ pc[t] = "reg_unlock"
    /\ Unlock(t)
    /\ Return(t, frame[t].err, frame[t].s, NilMethod)
    /\ UNCHANGED <<services, defaultService, heap, crashed>>

\* --------------------------------------------------------------------- get
\* A caller enters get(method).
CallGet(t, names) ==
    /\ ~crashed /\ pc[t] = "idle" /\ Started < MaxCalls
    /\ \E method \in names :
          frame' = [frame EXCEPT ![t] = [IdleFrame EXCEPT !.op = "get", !.method = method]]
    /\ pc' = [pc EXCEPT ![t] = "get_split"]
    /\ UNCHANGED <<services, defaultService, mutex, heap, hist, crashed>>

\* parts := strings.Split(method, "."), one or two parts wanted.
GetSplit(t) ==
    LET parts == Split(frame[t].method) IN
    /\ ~crashed /\ pc[t] = "get_split"
    /\ IF Len(parts) # 2 /\ Len(parts) # 1
       THEN Return(t, ErrIllFormed, NilService, NilMethod)
       ELSE /\ pc' = [pc EXCEPT ![t] = "get_lock"]
            /\ frame' = [frame EXCEPT ![t].parts = parts]
            /\ hist' = hist
    /\ UNCHANGED <<services, defaultService, mutex, heap, crashed>>

GetLock(t) ==
    /\ ~crashed /\ pc[t] = "get_lock"
    /\ Lock(t)
    /\ pc' = [pc EXCEPT ![t] = "get_select"]
    /\ UNCHANGED <<services, defaultService, heap, frame, hist, crashed>>

\* Mutant: the default service is selected whatever the name.
SelectDefault(parts) == defaultService

\* The service the name selects: the default one for a bare name, else
\* m.services[parts[0]].
Select(parts) ==
    IF Len(parts) = 1 THEN defaultService ELSE MapGet(services, parts[1])

\* Mutant: the service selected is kept as the default service.
GetSelectKeeps(t) ==
    /\ ~crashed /\ pc[t] = "get_select"
    /\ frame' = [frame EXCEPT ![t].service = Select(frame[t].parts)]
    /\ defaultService' = Select(frame[t].parts)
    /\ pc' = [pc EXCEPT ![t] = "get_log"]
    /\ UNCHANGED <<services, mutex, heap, hist, crashed>>

GetSelect(t) ==
    /\ ~crashed /\ pc[t] = "get_select"
    /\ frame' = [frame EXCEPT ![t].service = Select(frame[t].parts)]
    /\ pc' = [pc EXCEPT ![t] = "get_log"]
    /\ UNCHANGED <<services, defaultService, mutex, heap, hist, crashed>>

\* log.Printf(..., service.name, method): reads a field through the
\* pointer just selected; through nil it panics, with the mutex locked.
GetLog(t) ==
    /\ ~crashed /\ pc[t] = "get_log"
    /\ pc' = [pc EXCEPT ![t] =
                 IF frame[t].service = NilService THEN "panic" ELSE "get_unlock"]
    /\ UNCHANGED <<services, defaultService, mutex, heap, frame, hist, crashed>>

GetUnlock(t) ==
    /\ ~crashed /\ pc[t] = "get_unlock"
    /\ Unlock(t)
    /\ pc' = [pc EXCEPT ![t] = "get_find"]
    /\ UNCHANGED <<services, defaultService, heap, frame, hist, crashed>>

\* Mutant: a method the selected service lacks is looked for in the default service.
GetFindFallback(t) ==
    LET f == frame[t]
        name == IF Len(f.parts) = 1 THEN f.parts[1] ELSE f.parts[2]
        serviceMethod == MethodGet(heap[f.service].methods, name)
        fallback == IF defaultService = NilService THEN NilMethod
                    ELSE MethodGet(heap[defaultService].methods, name)
    IN
    /\ ~crashed /\ pc[t] = "get_find"
    /\ IF f.service = NilService
       THEN Return(t, ErrNoService, NilService, NilMethod)
       ELSE IF serviceMethod = NilMethod /\ fallback = NilMethod
       THEN Return(t, ErrNoMethod, NilService, NilMethod)
       ELSE IF serviceMethod = NilMethod
       THEN Return(t, NoError, defaultService, fallback)
       ELSE Return(t, NoError, f.service, serviceMethod)
    /\ UNCHANGED <<services, defaultService, mutex, heap, crashed>>

\* The nil check of the service, the method lookup and the return.
GetFind(t) ==
    LET f == frame[t]
        name == IF Len(f.parts) = 1 THEN f.parts[1] ELSE f.parts[2]
        serviceMethod == MethodGet(heap[f.service].methods, name)
    IN
    /\ ~crashed /\ pc[t] = "get_find"
    /\ IF f.service = NilService
       THEN Return(t, ErrNoService, NilService, NilMethod)
       ELSE IF serviceMethod = NilMethod
       THEN Return(t, ErrNoMethod, NilService, NilMethod)
       ELSE Return(t, NoError, f.service, serviceMethod)
    /\ UNCHANGED <<services, defaultService, mutex, heap, crashed>>

\* get defers nothing, so the panic leaves it with the mutex locked. The
\* caller is not part of this package: it may recover (net/http does, per
\* request) and go on ...
PanicRecovered(t) ==
    /\ ~crashed /\ pc[t] = "panic"
    /\ Return(t, Panicked, NilService, NilMethod)
    /\ UNCHANGED <<services, defaultService, mutex, heap, crashed>>

\* ... or not, and the process ends.
PanicCrash(t) ==
    /\ ~crashed /\ pc[t] = "panic"
    /\ crashed' = TRUE
    /\ UNCHANGED <<services, defaultService, mutex, heap, pc, frame, hist>>

\* ----------------------------------------------------------- specifications
Step(t, calls, names) ==
    \/ CallRegister(t, calls) \/ RegSetup(t) \/ RegMethod(t) \/ RegCheck(t)
    \/ RegLock(t) \/ RegInsert(t) \/ RegStore(t) \/ RegUnlock(t)
    \/ CallGet(t, names) \/ GetSplit(t) \/ GetLock(t) \/ GetSelect(t) \/ GetLog(t)
    \/ GetUnlock(t) \/ GetFind(t)
    \/ PanicRecovered(t) \/ PanicCrash(t)

\* Several goroutines call into the registry at once.
Next == \E t \in Threads : Step(t, ConcRegisterCalls, ConcGetNames)

Spec == Init /\ [][Next]_vars

\* One caller makes its calls one after the other.
NextSeq == Step("t1", SeqRegisterCalls, SeqGetNames)

SpecSeq == Init /\ [][NextSeq]_vars

\* Receivers of every shape: type Calc with one method drawn from all
\* parameter lists of up to four of these types and all these result
\* lists, exported (Fwd) or not (fwd), alone or next to the methods Add and
\* Say of CalcMethods.
ShapeTypes == {"*http.Request", "*Args", "Args", "*args"}

ShapeOuts == {<<>>, <<"error">>, <<"int">>, <<"error", "error">>}

ParamLists == UNION {[1..n -> ShapeTypes] : n \in 0..4}

Shapes ==
    {Method(<<"F", "w", "d">>, "", <<"*Calc">> \o in, out) :
        in \in ParamLists, out \in ShapeOuts}
    \cup
    {Method(<<"f", "w", "d">>, "main", <<"*Calc">> \o in, out) :
        in \in ParamLists, out \in ShapeOuts}

ShapeGetNames == {Calc \o Dot \o Add, Calc \o Dot \o <<"F", "w", "d">>}

\* The caller has just entered register(rcvr, "Calc", passReq, false) on a
\* new serviceMap, for a receiver of any of these shapes.
InitShapes ==
    /\ services = [nil |-> TRUE, m |-> <<>>]
    /\ defaultService = NilService
    /\ mutex = NoThread
    /\ heap = <<>>
    /\ hist = <<>>
    /\ crashed = FALSE
    /\ pc = [t \in Threads |-> IF t = "t1" THEN "reg_setup" ELSE "idle"]
    /\ \E m \in Shapes, base \in {<<>>, <<CalcMethods[1], CalcMethods[3]>>},
          passReq \in BOOLEAN :
          frame = [t \in Threads |->
                      IF t = "t1"
                      THEN [IdleFrame EXCEPT !.op = "register",
                               !.rcvr = Receiver("*Calc", base \o <<m>>),
                               !.name = Calc, !.passReq = passReq]
                      ELSE IdleFrame]

\* The register call runs, and gets follow it.
NextShapes ==
    \/ RegSetup("t1") \/ RegMethod("t1") \/ RegCheck("t1")
    \/ RegLock("t1") \/ RegInsert("t1") \/ RegStore("t1") \/ RegUnlock("t1")
    \/ CallGet("t1", ShapeGetNames) \/ GetSplit("t1") \/ GetLock("t1")
    \/ GetSelect("t1") \/ GetLog("t1") \/ GetUnlock("t1") \/ GetFind("t1")
    \/ PanicRecovered("t1") \/ PanicCrash("t1")

SpecShapes == InitShapes /\ [][NextShapes]_vars

\* The service struct register(rcvr, name, passReq, ...) has built when it
\* takes the lock: the name settled, every method that is not skipped in.
BuiltService(rcvr, name, passReq) ==
    LET kept == {i \in 1..NumMethod(rcvr) : SkipReason(rcvr.methods[i], passReq) = ""} IN
    [name |-> ServiceName(rcvr, name), rcvr |-> rcvr, passReq |-> passReq,
     methods |-> [k \in {rcvr.methods[i].Name : i \in kept} |->
                     NewServiceMethod(
                         rcvr.methods[CHOOSE i \in kept : rcvr.methods[i].Name = k],
                         passReq)]]

\* A registry in use: register(new(Calc), "", false, false) has returned
\* with success some time ago, and a caller makes further calls.
InitRegistered ==
    /\ heap = <<BuiltService(RcvrCalc, <<>>, FALSE)>>
    /\ services = MapPut([nil |-> TRUE, m |-> <<>>], Calc, 1)
    /\ defaultService = NilService
    /\ mutex = NoThread
    /\ pc = [t \in Threads |-> "idle"]
    /\ frame = [t \in Threads |-> IdleFrame]
    /\ hist = <<>>
    /\ crashed = FALSE

SpecRegistered == InitRegistered /\ [][NextSeq]_vars

\* Scheduling: a goroutine that can take a step of its call eventually
\* takes one, and sync.Mutex hands the lock to every waiter in the end
\* (starvation mode), so a Lock that is possible again and again succeeds.
Run(t) ==
    \/ RegSetup(t) \/ RegMethod(t) \/ RegCheck(t) \/ RegInsert(t) \/ RegStore(t)
    \/ RegUnlock(t)
    \/ GetSplit(t) \/ GetSelect(t) \/ GetLog(t) \/ GetUnlock(t) \/ GetFind(t)
    \/ PanicRecovered(t) \/ PanicCrash(t)

Acquire(t) == RegLock(t) \/ GetLock(t)

FairSpec ==
    /\ Spec
    /\ \A t \in Threads : WF_vars(Run(t)) /\ SF_vars(Acquire(t))

\* ------------------------------------------------- vocabulary of the claims
\* The number of "." in a string.
Dots(str) == Cardinality({i \in 1..Len(str) : str[i] = "."})

\* The calls that ended, by kind.
Registers == {i \in DOMAIN hist : hist[i].op = "register"}
Gets == {i \in DOMAIN hist : hist[i].op = "get"}

\* The single caller of SpecSeq is between two calls.
Quiet == pc["t1"] = "idle"

\* s holds no "." and is not empty.
Plain(str) == str # <<>> /\ Dots(str) = 0

\* The six shape rules, on the parameters after the receiver.
PointerToPublic(t) == t \in PtrTypes /\ isExportedOrBuiltin(Elem(t))

Conforms(m, passReq) ==
    LET p == Tail(m.In)
        off == IF passReq THEN 1 ELSE 0
    IN
    /\ isExported(m.Name)
    /\ Len(p) = 2 + off
    /\ passReq => p[1] = "*http.Request"
    /\ PointerToPublic(p[1 + off])
    /\ PointerToPublic(p[2 + off])
    /\ m.Out = <<"error">>

MethodsOf(rcvr) == {rcvr.methods[k] : k \in DOMAIN rcvr.methods}

ConformingNames(rcvr, passReq) ==
    {m.Name : m \in {x \in MethodsOf(rcvr) : Conforms(x, passReq)}}

\* The call that ended last.
Last == hist[Len(hist)]

\* This step is a step of the call of thread t.
StepOf(t) == pc'[t] # pc[t] \/ frame'[t] # frame[t]

\* This step ends a call.
Ends == Len(hist') = Len(hist) + 1

RegistryUnchanged == services' = services /\ defaultService' = defaultService

\* The get at position j of hist got service id and its descriptor of M.
Got(j, id, M) ==
    /\ hist[j].err = NoError
    /\ hist[j].service = id
    /\ M \in DOMAIN heap[id].methods
    /\ hist[j].serviceMethod = heap[id].methods[M]

\* The name check of register lets this call pass.
NameAccepted(rcvr, name) ==
    name # <<>> \/ isExported(TypeName(IndirectType(rcvr.type)))

\* The call at position i of hist has a usable name and a conforming method.
ValidCall(i) ==
    /\ NameAccepted(hist[i].rcvr, hist[i].name)
    /\ ConformingNames(hist[i].rcvr, hist[i].passReq) # {}

\* Registrations that ended, by kind and outcome.
Defaults == {i \in Registers : hist[i].isDefault}
Nameds == {i \in Registers : ~hist[i].isDefault}
Succeeded == {i \in DOMAIN hist : hist[i].err = NoError}

\* The part of a string before and after its first ".".
Before(str) == SubSeq(str, 1, IndexDot(str, 1) - 1)
After(str) == SubSeq(str, IndexDot(str, 1) + 1, Len(str))

\* ------------------------------------------------------------------ claims

\* C1: get never faults on an absent service: no call of get panics, for a
\* dotted name whose service is not registered or a bare name without a
\* default service; every such call returns to its caller (with the
\* "can't find service" error).
C1_AbsentServiceNeverFaults ==
    /\ ~crashed
    /\ \A t \in Threads : pc[t] # "panic"
    /\ \A i \in Gets : hist[i].err # Panicked

\* C7: a get whose method string holds two or more "." ends with the
\* ill-formed error, whatever is registered, and no other get does: one or
\* two parts are accepted, no more.
C7_MalformedNames ==
    \A i \in Gets : (hist[i].err = ErrIllFormed) <=> (Dots(hist[i].method) >= 2)

\* C7 witness: a service Calc with method Add is registered and a later
\* get of Calc.Add.Add was refused as ill-formed.
C7_Witness ==
    \E i \in Registers, j \in Gets :
        /\ i < j
        /\ hist[i].err = NoError /\ ~hist[i].isDefault
        /\ heap[hist[i].service].name = Calc
        /\ Add \in DOMAIN heap[hist[i].service].methods
        /\ hist[j].method = Calc \o Dot \o Add \o Dot \o Add
        /\ hist[j].err = ErrIllFormed

\* C2 as stated: once register(rcvr, S, passReq, false) has succeeded for a
\* receiver with a conforming method M, every get of S.M returns the
\* service that call created, with its passReq, and the descriptor stored
\* under M in it.
C2_RoundTripAnyName ==
    \A i \in Registers, j \in Gets :
        \A M \in ConformingNames(hist[i].rcvr, hist[i].passReq) :
            ( /\ i < j
              /\ hist[i].err = NoError /\ ~hist[i].isDefault
              /\ hist[j].method = hist[i].name \o Dot \o M )
            => /\ Got(j, hist[i].service, M)
               /\ heap[hist[j].service].passReq = hist[i].passReq

\* C2 amended: the same for a name S that is not empty and holds no ".".
C2_RoundTrip ==
    \A i \in Registers, j \in Gets :
        \A M \in ConformingNames(hist[i].rcvr, hist[i].passReq) :
            ( /\ i < j
              /\ hist[i].err = NoError /\ ~hist[i].isDefault
              /\ Plain(hist[i].name)
              /\ hist[j].method = hist[i].name \o Dot \o M )
            => /\ Got(j, hist[i].service, M)
               /\ heap[hist[j].service].passReq = hist[i].passReq

\* C2 witness: a service registered with passReq under a plain name was
\* looked up by Service.Method and returned.
C2_Witness ==
    \E i \in Registers, j \in Gets :
        /\ i < j
        /\ hist[i].err = NoError /\ ~hist[i].isDefault /\ hist[i].passReq
        /\ Plain(hist[i].name)
        /\ hist[j].method = hist[i].name \o Dot \o Say
        /\ Got(j, hist[i].service, Say)

\* C3: a successful register installs exactly the receiver's methods that
\* pass the six shape rules, each with its own reflect.Method and the
\* pointed-to argument and reply types; a receiver with a conforming method
\* is never refused for its methods; and a get that selects a registered
\* service finds a method if and only if it conforms.
C3_MethodFiltering ==
    /\ \A i \in Registers :
          LET conf == ConformingNames(hist[i].rcvr, hist[i].passReq)
              installed == heap[hist[i].service].methods
              off == IF hist[i].passReq THEN 1 ELSE 0
          IN
          /\ hist[i].err = NoError =>
                /\ DOMAIN installed = conf
                /\ \A k \in conf :
                      /\ installed[k].method \in MethodsOf(hist[i].rcvr)
                      /\ installed[k].method.Name = k
                      /\ Conforms(installed[k].method, hist[i].passReq)
                      /\ installed[k].argsType = Elem(installed[k].method.In[2 + off])
                      /\ installed[k].replyType = Elem(installed[k].method.In[3 + off])
          /\ conf # {} => hist[i].err # ErrNoMethods
    /\ (Quiet /\ hist # <<>> /\ Last.op = "get") =>
          /\ defaultService # NilService =>
                \A m \in MethodsOf(heap[defaultService].rcvr) :
                    Last.method = m.Name =>
                        IF Conforms(m, heap[defaultService].passReq)
                        THEN Got(Len(hist), defaultService, m.Name)
                        ELSE Last.err = ErrNoMethod
          /\ \A S \in DOMAIN services.m :
                \A m \in MethodsOf(heap[services.m[S]].rcvr) :
                    (Plain(S) /\ Last.method = S \o Dot \o m.Name) =>
                        IF Conforms(m, heap[services.m[S]].passReq)
                        THEN Got(Len(hist), services.m[S], m.Name)
                        ELSE Last.err = ErrNoMethod

\* C3 witness: a receiver with conforming methods and a method that takes
\* its argument by value was registered with passReq, a conforming method
\* of it is installed, and a get of the other method did not find it.
C3_Witness ==
    \E i \in Registers, j \in Gets :
        /\ i < j
        /\ hist[i].err = NoError /\ hist[i].passReq
        /\ Say \in DOMAIN heap[hist[i].service].methods
        /\ \E m \in MethodsOf(hist[i].rcvr) :
              /\ m.In = <<"*Calc", "*http.Request", "Args", "*Args">>
              /\ m.Out = <<"error">>
              /\ hist[j].method = Calc \o Dot \o m.Name
        /\ hist[j].err = ErrNoMethod

\* C4 as stated: while register runs for a receiver without a conforming
\* method, no step of it changes the service map or the default service,
\* and it ends with the "no exported methods of suitable type" error.
C4_ZeroMethodsAlwaysNoMethods ==
    [][\A t \in Threads :
          ( /\ frame[t].op = "register" /\ StepOf(t)
            /\ ConformingNames(frame[t].rcvr, frame[t].passReq) = {} )
          => /\ RegistryUnchanged
             /\ Ends => hist'[Len(hist')].err = ErrNoMethods]_vars

\* C4 amended: the same, except that the call ends with the "type is not
\* exported" error when the name argument is empty and the name of the
\* receiver's type is not exported, the name being checked before the
\* methods.
C4_ZeroMethods ==
    [][\A t \in Threads :
          ( /\ frame[t].op = "register" /\ StepOf(t)
            /\ ConformingNames(frame[t].rcvr, frame[t].passReq) = {} )
          => /\ RegistryUnchanged
             /\ Ends => hist'[Len(hist')].err =
                   IF /\ frame[t].name = <<>>
                      /\ ~isExported(TypeName(IndirectType(frame[t].rcvr.type)))
                   THEN ErrNotExported
                   ELSE ErrNoMethods]_vars

\* C4 witness: with a named and a default service registered, a register
\* for a receiver without conforming methods was refused for its methods.
C4_Witness ==
    /\ ~services.nil /\ defaultService # NilService
    /\ hist # <<>> /\ Last.op = "register"
    /\ ConformingNames(Last.rcvr, Last.passReq) = {}
    /\ MethodsOf(Last.rcvr) # {}
    /\ Last.err = ErrNoMethods

\* C5, its last part: once a named service S is registered, a get of S.M
\* that follows a further named registration for S still returns the first
\* registration's service and descriptor.
C5_KeepsFirst ==
    \A i \in Nameds \cap Succeeded, k \in Nameds, j \in Gets :
        LET S == heap[hist[i].service].name IN
        \A M \in DOMAIN heap[hist[i].service].methods :
            ( /\ i < k /\ k < j
              /\ heap[hist[k].service].name = S
              /\ Plain(S)
              /\ hist[j].method = S \o Dot \o M )
            => Got(j, hist[i].service, M)

\* C5 as stated: a register with isDefault=false whose name is accepted and
\* is already in the map changes neither the map nor the default service
\* and ends with the "service already defined" error, and the first
\* registration stays the one get returns.
C5_DuplicateAnyCall ==
    /\ []C5_KeepsFirst
    /\ [][\A t \in Threads :
             LET S == ServiceName(frame[t].rcvr, frame[t].name) IN
             ( /\ frame[t].op = "register" /\ ~frame[t].isDefault /\ StepOf(t)
               /\ NameAccepted(frame[t].rcvr, frame[t].name)
               /\ S \in DOMAIN services.m /\ services.m[S] # frame[t].s )
             => /\ RegistryUnchanged
                /\ Ends => hist'[Len(hist')].err = ErrAlreadyDefined]_vars

\* C5 amended: the same for a register whose receiver has a conforming
\* method; the methods are checked before the map is looked at.
C5_Duplicate ==
    /\ []C5_KeepsFirst
    /\ [][\A t \in Threads :
             LET S == ServiceName(frame[t].rcvr, frame[t].name) IN
             ( /\ frame[t].op = "register" /\ ~frame[t].isDefault /\ StepOf(t)
               /\ NameAccepted(frame[t].rcvr, frame[t].name)
               /\ ConformingNames(frame[t].rcvr, frame[t].passReq) # {}
               /\ S \in DOMAIN services.m /\ services.m[S] # frame[t].s )
             => /\ RegistryUnchanged
                /\ Ends => hist'[Len(hist')].err = ErrAlreadyDefined]_vars

\* C5 witness: a second registration under a registered name was refused
\* as already defined, and a later get returned a method of the first.
C5_Witness ==
    \E i \in Nameds \cap Succeeded, k \in Nameds, j \in Gets :
        /\ i < k /\ k < j
        /\ hist[k].err = ErrAlreadyDefined
        /\ hist[k].rcvr # hist[i].rcvr
        /\ heap[hist[k].service].name = heap[hist[i].service].name
        /\ hist[j].err = NoError /\ hist[j].service = hist[i].service

\* C6: a default registration with a usable name and a conforming method
\* succeeds also when a default service is set, and a bare-name get after
\* two such registrations is answered from the later one alone: its
\* descriptor if it has the method, the "can't find method" error if not.
C6_DefaultReplacement ==
    \A i \in Defaults, k \in Defaults :
        (i < k /\ ValidCall(i) /\ ValidCall(k)) =>
            /\ hist[i].err = NoError /\ hist[k].err = NoError
            /\ \A j \in Gets :
                  ( /\ k < j /\ Dots(hist[j].method) = 0
                    /\ ~\E x \in Defaults : k < x /\ x < j )
                  => IF hist[j].method \in ConformingNames(hist[k].rcvr, hist[k].passReq)
                     THEN Got(j, hist[k].service, hist[j].method)
                     ELSE hist[j].err = ErrNoMethod

\* C6 witness: a method of the first default service alone was asked for by
\* its bare name after the second registration, and was not found.
C6_Witness ==
    \E i \in Defaults, k \in Defaults, j \in Gets :
        /\ i < k /\ k < j /\ ValidCall(i) /\ ValidCall(k)
        /\ hist[j].method \in DOMAIN heap[hist[i].service].methods
        /\ hist[j].method \notin DOMAIN heap[hist[k].service].methods
        /\ hist[j].err = ErrNoMethod

\* C8: the default service and the named services are apart. After a
\* registration as default, get(M) finds the default's method M, and
\* get(S.M) returns an error for every S that is not a registered name.
\* After a registration under a name S, get(S.M) finds the method, and
\* get(M) returns the "can't find service" error as long as no default
\* service is registered.
C8_SeparateNamespaces ==
    \A j \in Gets :
        LET name == hist[j].method
            defaults == {i \in Defaults \cap Succeeded : i < j}
            nameds == {i \in Nameds \cap Succeeded : i < j}
            named == {i \in nameds : heap[hist[i].service].name = Before(name)}
        IN
        /\ (Dots(name) = 0 /\ defaults # {}) =>
              LET d == hist[CHOOSE i \in defaults : \A x \in defaults : x <= i].service IN
              IF name \in DOMAIN heap[d].methods
              THEN Got(j, d, name) ELSE hist[j].err = ErrNoMethod
        /\ (Dots(name) = 1 /\ defaults # {} /\ named = {}) =>
              hist[j].err \in {ErrNoService, ErrNoMethod}
        /\ (Dots(name) = 1 /\ named # {}) =>
              LET s == hist[CHOOSE i \in named : \A x \in named : i <= x].service IN
              IF After(name) \in DOMAIN heap[s].methods
              THEN Got(j, s, After(name)) ELSE hist[j].err = ErrNoMethod
        /\ (Dots(name) = 0 /\ nameds # {} /\ defaults = {}) =>
              hist[j].err = ErrNoService

\* The places of register and get between Lock and Unlock.
Locked == {"reg_insert", "reg_store", "reg_unlock", "get_select", "get_log", "get_unlock"}

\* C9: the service map and the default service are read and written only
\* by the thread that holds the mutex, one thread at most is between Lock
\* and Unlock, and the mutex is locked only while a call is between its
\* Lock and its Unlock (or is just unwinding).
C9_LockDiscipline ==
    /\ \A t \in Threads : pc[t] \in {"reg_insert", "reg_store", "get_select"} => mutex = t
    /\ Cardinality({t \in Threads : pc[t] \in Locked}) <= 1
    /\ \A t \in Threads : mutex = t => pc[t] \in Locked \cup {"panic"}

\* C10: a call that ends, by a return or by a panic handed to its caller,
\* leaves the mutex unlocked if it had locked it, and under fair scheduling
\* every call of register and get ends.
C10_EveryCallReturns ==
    /\ [][\A t \in Threads : (StepOf(t) /\ Ends) => mutex' # t]_vars
    /\ \A t \in Threads : (pc[t] # "idle") ~> (pc[t] = "idle")

\* This step is a step of a call of get by thread t, its entry included.
GetStep(t) == StepOf(t) /\ (frame[t].op = "get" \/ frame'[t].op = "get")

\* C11: get is read-only: no step of a call of get, from its entry to its
\* end by a return or a panic, changes the service map, the default service
\* or a service struct, whatever is registered, whatever string is asked
\* for and whatever other calls run beside it.
C11_GetReadOnly ==
    [][\A t \in Threads : GetStep(t) => RegistryUnchanged /\ heap' = heap]_vars

\* C11 witness: with a service in the map, one get has returned a
\* descriptor and one has returned an error.
C11_Witness ==
    /\ ~services.nil
    /\ \E i \in Gets, j \in Gets :
          /\ hist[i].err = NoError
          /\ hist[j].err = ErrNoMethod

\* The service structs the map holds.
Stored == {services.m[k] : k \in DOMAIN services.m}

\* Service id is or was installed: it is in the map, it is the default
\* service, the register that made it has stored it, or a get has selected
\* or returned it.
Installed(id) ==
    \/ id \in Stored \/ id = defaultService
    \/ \E t \in Threads : frame[t].service = id
    \/ \E t \in Threads : pc[t] = "reg_unlock" /\ frame[t].s = id /\ frame[t].err = NoError
    \/ \E i \in Succeeded : hist[i].service = id

\* What a get has returned is what its service holds now.
HeldPairsIntact ==
    \A j \in Gets \cap Succeeded :
        \E M \in DOMAIN heap[hist[j].service].methods :
            /\ hist[j].method \in {M, Before(hist[j].method) \o Dot \o M}
            /\ heap[hist[j].service].methods[M] = hist[j].serviceMethod

\* C12: a service that is or was installed never changes: no step of any
\* register or get changes its name, its passReq flag, its receiver, its
\* method map or a descriptor in it, and no service struct goes away. So
\* the service and descriptor a get returned stay as they were returned,
\* also once a later register has replaced the default service.
C12_InstalledImmutable ==
    /\ []HeldPairsIntact
    /\ [][/\ Len(heap') >= Len(heap)
          /\ \A id \in DOMAIN heap : Installed(id) => heap'[id] = heap[id]]_vars

\* C12 witness: a get by a bare name returned a method of the default
\* service, and a later register has replaced that default service.
C12_Witness ==
    \E j \in Gets \cap Succeeded :
        /\ Dots(hist[j].method) = 0
        /\ hist[j].service # defaultService
        /\ \E k \in Defaults \cap Succeeded : j < k /\ hist[k].service = defaultService

\* The two errors register has for a name it does not take.
InvalidServiceName == {ErrNotExported, ErrNoServiceName}

\* This step is a step of a call of register by thread t, after its entry.
RegStep(t) == StepOf(t) /\ frame[t].op = "register"

\* C13 as stated: a register whose service name, given or taken from the
\* receiver's type, is empty or not exported changes neither the service
\* map nor the default service and ends with an invalid-name error.
C13_InvalidNameAnyOrigin ==
    [][\A t \in Threads :
          ( /\ RegStep(t)
            /\ ~isExported(ServiceName(frame[t].rcvr, frame[t].name)) )
          => /\ RegistryUnchanged
             /\ Ends => hist'[Len(hist')].err \in InvalidServiceName]_vars

\* C13 amended: a register with an empty name argument whose receiver's
\* type name is empty or not exported changes neither the service map nor
\* the default service and ends with the "type is not exported" error; no
\* other register ends with an invalid-name error: a name that is given is
\* used as it is, exported or not.
C13_InvalidName ==
    [][\A t \in Threads :
          RegStep(t) =>
             IF /\ frame[t].name = <<>>
                /\ ~isExported(TypeName(IndirectType(frame[t].rcvr.type)))
             THEN /\ RegistryUnchanged
                  /\ Ends => hist'[Len(hist')].err = ErrNotExported
             ELSE Ends => hist'[Len(hist')].err \notin InvalidServiceName]_vars

\* C13 witness: a register under a given name that is not exported has
\* succeeded, and later registers without a name, one for a receiver of an
\* unexported type and one for a receiver of an unnamed type, were refused.
C13_Witness ==
    \E i \in Registers, j \in Registers, k \in Registers :
        /\ i < j /\ i < k
        /\ hist[i].err = NoError /\ hist[i].name # <<>> /\ ~isExported(hist[i].name)
        /\ hist[j].name = <<>> /\ hist[j].rcvr = RcvrLower /\ hist[j].err = ErrNotExported
        /\ hist[k].name = <<>> /\ hist[k].rcvr = RcvrAnon /\ hist[k].err = ErrNotExported

\* The service a method string selects in the registry as it is, and the
\* method name it asks for.
Selected(str) ==
    IF Dots(str) = 0 THEN defaultService ELSE MapGet(services, Before(str))

Wanted(str) == IF Dots(str) = 0 THEN str ELSE After(str)

\* C14: a get whose string selects a registered service (the named one
\* for Service.Method, the default one for a bare name) that has no method
\* of the name asked for ends with the "can't find method" error and
\* returns neither a service nor a descriptor; if the service has the
\* method, get returns that service and its own descriptor, so never a
\* method of another service.
C14_MethodNotFound ==
    [][\A t \in Threads :
          LET str == frame[t].method
              sel == Selected(str)
              r == hist'[Len(hist')]
          IN
          ( /\ GetStep(t) /\ Ends
            /\ Dots(str) <= 1 /\ sel # NilService )
          => IF Wanted(str) \in DOMAIN heap[sel].methods
             THEN /\ r.err = NoError /\ r.service = sel
                  /\ r.serviceMethod = heap[sel].methods[Wanted(str)]
             ELSE /\ r.err = ErrNoMethod
                  /\ r.service = NilService /\ r.serviceMethod = NilMethod]_vars

\* C14 witness: a get of Service.Method ended with the "can't find
\* method" error for a method the named service lacks and the default
\* service has.
C14_Witness ==
    /\ hist # <<>> /\ Last.op = "get" /\ Last.err = ErrNoMethod
    /\ Dots(Last.method) = 1
    /\ Selected(Last.method) # NilService
    /\ defaultService # NilService
    /\ Wanted(Last.method) \in DOMAIN heap[defaultService].methods

\* C15: a register with isDefault=true, a usable name and a conforming
\* method never changes the service map, changes the default service only
\* to its own new service, and ends with success whatever names the map
\* holds. A register with isDefault=false never changes the default
\* service, changes the map only by adding its own new service under a
\* name the map did not hold, and has added it when it ends with success.
C15_DefaultApartFromNamed ==
    [][\A t \in Threads :
          LET f == frame[t]
              S == ServiceName(f.rcvr, f.name)
          IN
          RegStep(t) =>
             IF f.isDefault
             THEN /\ services' = services
                  /\ defaultService' \in {defaultService, f.s}
                  /\ ( /\ Ends /\ NameAccepted(f.rcvr, f.name)
                       /\ ConformingNames(f.rcvr, f.passReq) # {} )
                     => /\ hist'[Len(hist')].err = NoError
                        /\ defaultService' = f.s
             ELSE /\ defaultService' = defaultService
                  /\ \/ services'.m = services.m
                     \/ /\ S \notin DOMAIN services.m
                        /\ services' = MapPut(services, S, f.s)
                  /\ (Ends /\ hist'[Len(hist')].err = NoError)
                     => MapGet(services', S) = f.s]_vars

\* C15 witness: after a default registration, a service was registered
\* under a name, and then a default registration of the same name
\* succeeded; the map still holds the named service and the default
\* service is the last one.
C15_Witness ==
    \E x \in Defaults \cap Succeeded, i \in Nameds \cap Succeeded,
       k \in Defaults \cap Succeeded :
        /\ x < i /\ i < k
        /\ heap[hist[i].service].name = heap[hist[k].service].name
        /\ MapGet(services, heap[hist[i].service].name) = hist[i].service
        /\ defaultService = hist[k].service

\* The bare-name get at position j of hist was answered from the default
\* registration at position k as the receiver and passReq of k alone tell:
\* a conforming method of the receiver with its descriptor, the "can't
\* find method" error for any other name.
AnsweredFrom(j, k) ==
    LET M == hist[j].method
        off == IF hist[k].passReq THEN 1 ELSE 0
    IN
    IF M \in ConformingNames(hist[k].rcvr, hist[k].passReq)
    THEN /\ hist[j].err = NoError
         /\ hist[j].service = hist[k].service
         /\ heap[hist[j].service].rcvr = hist[k].rcvr
         /\ heap[hist[j].service].passReq = hist[k].passReq
         /\ \E m \in MethodsOf(hist[k].rcvr) :
               /\ m.Name = M /\ Conforms(m, hist[k].passReq)
               /\ hist[j].serviceMethod =
                     [method |-> m, argsType |-> Elem(m.In[2 + off]),
                      replyType |-> Elem(m.In[3 + off])]
    ELSE hist[j].err = ErrNoMethod

\* The bare-name gets that followed the default registration k with no
\* other default registration in between.
GetsAfterDefault(k) ==
    {j \in Gets : /\ k < j /\ Dots(hist[j].method) = 0
                  /\ ~\E x \in Defaults : k < x /\ x < j}

\* C16 as stated: a register with isDefault=true for a receiver with a
\* conforming method succeeds whatever its name argument is, the empty
\* name included, and the bare-name gets that follow are answered as its
\* receiver and passReq alone tell.
C16_NameIgnoredAnyReceiver ==
    \A k \in Defaults :
        ConformingNames(hist[k].rcvr, hist[k].passReq) # {} =>
            /\ hist[k].err = NoError
            /\ \A j \in GetsAfterDefault(k) : AnsweredFrom(j, k)

\* C16 amended: the same for a name argument that is not empty, or is
\* empty with a receiver whose type name is exported; with an empty name
\* and a type name that is empty or not exported the register ends with
\* the "type is not exported" error.
C16_NameIgnored ==
    \A k \in Defaults :
        ConformingNames(hist[k].rcvr, hist[k].passReq) # {} =>
            IF NameAccepted(hist[k].rcvr, hist[k].name)
            THEN /\ hist[k].err = NoError
                 /\ \A j \in GetsAfterDefault(k) : AnsweredFrom(j, k)
            ELSE hist[k].err = ErrNotExported

\* C16 witness: the same receiver was registered as default twice with
\* the same passReq, once without a name and once under a name, both with
\* success, and a bare-name get after them returned a method.
C16_Witness ==
    \E i \in Defaults, k \in Defaults :
        /\ hist[i].rcvr = hist[k].rcvr /\ hist[i].passReq = hist[k].passReq
        /\ hist[i].name = <<>> /\ hist[k].name # <<>>
        /\ hist[i].err = NoError /\ hist[k].err = NoError
        /\ \E j \in Gets : i < j /\ k < j /\ hist[j].err = NoError

\* The service structs a get can come upon: those in the map, the default
\* service, and those a get in progress has selected.
Visible ==
    (Stored \cup {defaultService} \cup {frame[t].service : t \in Threads})
        \ {NilService}

\* The register that made service id is still setting it up.
InTheMaking(id) ==
    \E t \in Threads : pc[t] \in {"reg_setup", "reg_loop"} /\ frame[t].s = id

\* C17: in every state of every interleaving of register and get calls,
\* each service in the map and the default service has a method and a
\* name that is not empty, each service in the map is stored under its own
\* name, and each service a get can come upon has all its methods: no
\* register is still setting it up.
C17_WellFormed ==
    /\ \A id \in Visible :
          /\ id \in DOMAIN heap
          /\ DOMAIN heap[id].methods # {}
          /\ heap[id].name # <<>>
          /\ ~InTheMaking(id)
          /\ DOMAIN heap[id].methods = ConformingNames(heap[id].rcvr, heap[id].passReq)
    /\ \A k \in DOMAIN services.m : heap[services.m[k]].name = k
    /\ services.nil => DOMAIN services.m = {}

\* C17 witness: a get has selected a registered service while another
\* thread's register has put some, not all, methods into its new service.
C17_Witness ==
    \E t \in Threads, u \in Threads :
        /\ pc[t] \in {"get_log", "get_unlock", "get_find"}
        /\ frame[t].service # NilService
        /\ pc[u] = "reg_loop"
        /\ DOMAIN heap[frame[u].s].methods # {}
        /\ DOMAIN heap[frame[u].s].methods #
              ConformingNames(frame[u].rcvr, frame[u].passReq)

\* The named registrations that ended and got as far as the map: those
\* with a usable name and a conforming method, for the service name S.
NamedFor(S) ==
    {i \in Nameds : ValidCall(i) /\ heap[hist[i].service].name = S}

\* C18: of the registrations with isDefault=false, a usable name and a
\* conforming method that have ended for one service name, whatever way
\* their steps were interleaved, exactly one has succeeded and every other
\* one has ended with the "service already defined" error, and the map
\* holds the service of the one that succeeded.
C18_OneWinner ==
    \A i \in Nameds :
        LET S == heap[hist[i].service].name
            won == {k \in NamedFor(S) : hist[k].err = NoError}
        IN
        ValidCall(i) =>
            /\ Cardinality(won) = 1
            /\ \A k \in NamedFor(S) \ won : hist[k].err = ErrAlreadyDefined
            /\ \A k \in won : MapGet(services, S) = hist[k].service

\* C18 witness: two registrations for one name ran at the same time: the
\* one that set up its service first came to the map second and was
\* refused, the other one succeeded.
C18_Witness ==
    \E i \in Nameds, k \in Nameds :
        /\ hist[i].t # hist[k].t
        /\ heap[hist[i].service].name = heap[hist[k].service].name
        /\ hist[i].err = NoError /\ hist[k].err = ErrAlreadyDefined
        /\ hist[k].service < hist[i].service

\* Every entry of the service map is in it after the step, unchanged.
MapKept ==
    \A k \in DOMAIN services.m :
        k \in DOMAIN services'.m /\ services'.m[k] = services.m[k]

\* C19: no step of any call takes a name out of the service map or puts
\* another service under it, so once a get of Service.Method has returned
\* a service and a descriptor, every later get of the same string returns
\* the same two, whatever registers, named or default, succeeding or
\* failing, were called in between.
C19_NamedPermanent ==
    /\ [][MapKept]_vars
    /\ [](\A i \in Gets, j \in Gets :
             ( /\ i < j /\ hist[i].method = hist[j].method
               /\ Dots(hist[i].method) = 1 /\ hist[i].err = NoError )
             => /\ hist[j].err = NoError
                /\ hist[j].service = hist[i].service
                /\ hist[j].serviceMethod = hist[i].serviceMethod)

\* C19 witness: between two gets of Service.Method that returned the same
\* service and descriptor, a register under the same service name was
\* refused.
C19_Witness ==
    \E i \in Gets, k \in Registers, j \in Gets :
        /\ i < k /\ k < j
        /\ hist[i].method = hist[j].method /\ Dots(hist[i].method) = 1
        /\ hist[i].err = NoError /\ hist[j].err = NoError
        /\ hist[j].service = hist[i].service
        /\ heap[hist[k].service].name = Before(hist[i].method)
        /\ hist[k].err = ErrAlreadyDefined

====
